---- MODULE Spec2Model ----
(***************************************************************************)
(* trimshare: the output-name inference of trimshare.py and the run of     *)
(* main around it.                                                         *)
(*                                                                         *)
(* A string is a sequence of one-character strings.  The filesystem is     *)
(* the set of path strings for which Path(p).exists() answers True.        *)
(* An optional string (str | None) is a record [some, val].                *)
(*                                                                         *)
(* infer_out_video_name runs synchronously against one filesystem state;   *)
(* other processes act between main's existence check and the call, and    *)
(* between two calls made by a test.                                       *)
(***************************************************************************)
EXTENDS Integers, Sequences, FiniteSets, TLC

VARIABLES
    entry,       \* who runs: "main" (trimshare.py:82) or "test" (the tests call infer_out_video_name directly)
    o,           \* args.o / the first argument the caller passes (str | None)
    in_video,    \* args.in_video / the second argument the caller passes
    fs,          \* the paths that exist
    pc,          \* position in the code
    outname,     \* infer_out_video_name: parameter outname
    inname,      \* infer_out_video_name: parameter inname (reassigned at line 65)
    conv_name,   \* infer_out_video_name: local conv_name
    reading,     \* infer_out_video_name: what datetime.now() gave at line 71, <<t>> (<<>> until then)
    now,         \* infer_out_video_name: local now (<<>> until line 71 runs)
    safer_name,  \* infer_out_video_name: local safer_name
    result,      \* how the last call of infer_out_video_name ended
    out_video,   \* main: local out_video
    ran,         \* main: the encoder command lines run so far, as <<pass, output path>>
    calls,       \* number of calls of infer_out_video_name started
    prev,        \* the previous call's clock reading and outcome
    changed      \* another process changed the filesystem since the run began / since the previous call ended

vars == <<entry, o, in_video, fs, pc, outname, inname, conv_name, reading, now,
          safer_name, result, out_video, ran, calls, prev, changed>>

-----------------------------------------------------------------------------
(* Bounds *)

MaxLen == 3      \* longest input name drawn from the alphabet
MaxStem == 1     \* longest stem of the input names that end in ".webm"
MaxFiles == 2    \* most files present when the run begins
MaxCalls == 2    \* most calls of infer_out_video_name one test makes

-----------------------------------------------------------------------------
(* Strings *)

Alphabet == {"a", ".", "/"}

RECURSIVE Strs(_)
Strs(n) == IF n = 0 THEN {<<>>}
           ELSE LET S == Strs(n - 1)
                IN  S \cup {Append(s, c) : s \in {t \in S : Len(t) = n - 1}, c \in Alphabet}

WEBM == <<".", "w", "e", "b", "m">>
TRIMSHARE == <<"-", "t", "r", "i", "m", "s", "h", "a", "r", "e", "-">>

\* "." in inname
Contains(s, c) == \E i \in 1..Len(s) : s[i] = c

\* inname.split(".")
RECURSIVE SplitFrom(_, _, _)
SplitFrom(s, i, cur) ==
    IF i > Len(s) THEN <<cur>>
    ELSE IF s[i] = "." THEN <<cur>> \o SplitFrom(s, i + 1, <<>>)
    ELSE SplitFrom(s, i + 1, Append(cur, s[i]))

Split(s) == SplitFrom(s, 1, <<>>)

\* ".".join(parts)
RECURSIVE Join(_)
Join(parts) ==
    IF Len(parts) = 0 THEN <<>>
    ELSE IF Len(parts) = 1 THEN parts[1]
    ELSE parts[1] \o <<".">> \o Join(Tail(parts))

\* parts[:-1]
DropLast(parts) == SubSeq(parts, 1, Len(parts) - 1)

\* a variant that cuts at the first dot instead of the last
StripExtFirstDot(s) == IF Contains(s, ".") THEN Split(s)[1] ELSE s

\* lines 64-65: strip file extension if there is one
StripExt(s) == IF Contains(s, ".") THEN Join(DropLast(Split(s))) ELSE s

\* strftime: one decimal digit, and zero-padded fields
Digit(d) == CASE d = 0 -> "0" [] d = 1 -> "1" [] d = 2 -> "2" [] d = 3 -> "3"
              [] d = 4 -> "4" [] d = 5 -> "5" [] d = 6 -> "6" [] d = 7 -> "7"
              [] d = 8 -> "8" [] d = 9 -> "9"

Pad2(n) == <<Digit((n \div 10) % 10), Digit(n % 10)>>
Pad4(n) == <<Digit((n \div 1000) % 10), Digit((n \div 100) % 10)>> \o Pad2(n)

\* a variant that does not pad the fields
RECURSIVE Decimal(_)
Decimal(n) == IF n < 10 THEN <<Digit(n)>> ELSE Append(Decimal(n \div 10), Digit(n % 10))

StrftimeNoPad(t) == Decimal(t.year) \o <<"-">> \o Decimal(t.month) \o <<"-">> \o Decimal(t.day)
                    \o <<"-">> \o Decimal(t.hour) \o Decimal(t.minute) \o Decimal(t.second)

\* datetime.strftime("%Y-%m-%d-%H%M%S")
Strftime(t) == Pad4(t.year) \o <<"-">> \o Pad2(t.month) \o <<"-">> \o Pad2(t.day)
               \o <<"-">> \o Pad2(t.hour) \o Pad2(t.minute) \o Pad2(t.second)

\* f"{inname}.webm" and f"{inname}-trimshare-{now}.webm"
ConvName(base) == base \o WEBM
SaferName(base, stamp) == base \o TRIMSHARE \o stamp \o WEBM

\* Path(p).exists()
Exists(p) == p \in fs

-----------------------------------------------------------------------------
(* Values *)

None == [some |-> FALSE, val |-> <<>>]
Some(s) == [some |-> TRUE, val |-> s]

Return(s) == [kind |-> "return", name |-> s]
Raise(e) == [kind |-> e, name |-> <<>>]
NoResult == [kind |-> "none", name |-> <<>>]

NoPrev == [valid |-> FALSE, reading |-> <<>>, result |-> NoResult]

\* readings datetime.now() can give: the tests' frozen clock, and one with two-digit fields
T2001 == [year |-> 2001, month |-> 1, day |-> 1, hour |-> 1, minute |-> 1, second |-> 1]
T2023 == [year |-> 2023, month |-> 11, day |-> 30, hour |-> 23, minute |-> 5, second |-> 59]
Clocks == {T2001, T2023}

\* input names: every string up to MaxLen, and names whose extension is already .webm
InNames == Strs(MaxLen) \cup {s \o WEBM : s \in Strs(MaxStem)}

\* explicit output names a caller may give besides the input name itself
OutNames(in) == {in, <<"o">>, <<"a">> \o WEBM}

\* the input name cut before any one of its dots, and the input name itself
Stems(s) == {s} \cup {SubSeq(s, 1, i - 1) : i \in {j \in 1..Len(s) : s[j] = "."}}

\* paths that may exist: the input, the explicit output, and for every stem
\* of the input the converted and the timestamped names
Universe(in, out) ==
    {in} \cup (IF out.some THEN {out.val} ELSE {})
    \cup {p \o WEBM : p \in Stems(in)}
    \cup {p \o TRIMSHARE \o Strftime(t) \o WEBM : p \in Stems(in), t \in Clocks}

-----------------------------------------------------------------------------
(* State after start *)

Init ==
    /\ entry \in {"main", "test"}
    /\ in_video \in InNames
    /\ o \in {None} \cup {Some(s) : s \in OutNames(in_video)}
    /\ fs \in {F \in SUBSET Universe(in_video, o) : Cardinality(F) <= MaxFiles}
    /\ pc = IF entry = "main" THEN "main87" ELSE "idle"
    /\ outname = None
    /\ inname = <<>>
    /\ conv_name = <<>>
    /\ reading = <<>>
    /\ now = <<>>
    /\ safer_name = <<>>
    /\ result = NoResult
    /\ out_video = <<>>
    /\ ran = {}
    /\ calls = 0
    /\ prev = NoPrev
    /\ changed = FALSE

\* entering infer_out_video_name(a, b)
Enter(a, b) ==
    /\ outname' = a
    /\ inname' = b
    /\ conv_name' = <<>>
    /\ reading' = <<>>
    /\ now' = <<>>
    /\ safer_name' = <<>>
    /\ result' = NoResult
    /\ calls' = calls + 1
    /\ pc' = "l58"

-----------------------------------------------------------------------------
(* infer_out_video_name *)

\* a variant without the comparison of line 59
Infer58NoCompare ==
    /\ pc = "l58"
    /\ IF outname.some
       THEN /\ result' = Return(outname.val)
            /\ pc' = "ret"
       ELSE /\ result' = result
            /\ pc' = "l64"
    /\ UNCHANGED <<entry, o, in_video, fs, outname, inname, conv_name, reading, now,
                   safer_name, out_video, ran, calls, prev, changed>>

\* a variant that refuses an explicit name that exists already
Infer58RefuseExisting ==
    /\ pc = "l58"
    /\ IF outname.some
       THEN /\ result' = IF outname.val = inname \/ Exists(outname.val)
                         THEN Raise("FileExistsError")
                         ELSE Return(outname.val)
            /\ pc' = "ret"
       ELSE /\ result' = result
            /\ pc' = "l64"
    /\ UNCHANGED <<entry, o, in_video, fs, outname, inname, conv_name, reading, now,
                   safer_name, out_video, ran, calls, prev, changed>>

\* lines 58-61
Infer58 ==
    /\ pc = "l58"
    /\ IF outname.some
       THEN /\ result' = IF outname.val = inname
                         THEN Raise("FileExistsError")
                         ELSE Return(outname.val)
            /\ pc' = "ret"
       ELSE /\ result' = result
            /\ pc' = "l64"
    /\ UNCHANGED <<entry, o, in_video, fs, outname, inname, conv_name, reading, now,
                   safer_name, out_video, ran, calls, prev, changed>>

\* lines 63-67
Infer64 ==
    /\ pc = "l64"
    /\ inname' = StripExt(inname)
    /\ conv_name' = ConvName(inname')
    /\ pc' = "l68"
    /\ UNCHANGED <<entry, o, in_video, fs, outname, reading, now, safer_name, result,
                   out_video, ran, calls, prev, changed>>

\* a variant that returns the converted name without looking for it
Infer68NoCheck ==
    /\ pc = "l68"
    /\ pc' = "ret"
    /\ result' = Return(conv_name)
    /\ UNCHANGED <<entry, o, in_video, fs, outname, inname, conv_name, reading, now,
                   safer_name, out_video, ran, calls, prev, changed>>

\* lines 68, 78-79
Infer68 ==
    /\ pc = "l68"
    /\ IF Exists(conv_name)
       THEN /\ pc' = "l71"
            /\ result' = result
       ELSE /\ pc' = "ret"
            /\ result' = Return(conv_name)
    /\ UNCHANGED <<entry, o, in_video, fs, outname, inname, conv_name, reading, now,
                   safer_name, out_video, ran, calls, prev, changed>>

\* lines 69-72
Infer71 ==
    /\ pc = "l71"
    /\ \E t \in Clocks :
          /\ reading' = <<t>>
          /\ now' = Strftime(t)
          /\ safer_name' = SaferName(inname, now')
    /\ pc' = "l73"
    /\ UNCHANGED <<entry, o, in_video, fs, outname, inname, conv_name, result,
                   out_video, ran, calls, prev, changed>>

\* a variant that returns the timestamped name without looking for it
Infer73NoCheck ==
    /\ pc = "l73"
    /\ result' = Return(safer_name)
    /\ pc' = "ret"
    /\ UNCHANGED <<entry, o, in_video, fs, outname, inname, conv_name, reading, now,
                   safer_name, out_video, ran, calls, prev, changed>>

\* a variant that creates the file it returns
Infer73Touch ==
    /\ pc = "l73"
    /\ result' = IF Exists(safer_name) THEN Raise("NameError") ELSE Return(safer_name)
    /\ fs' = IF Exists(safer_name) THEN fs ELSE fs \cup {safer_name}
    /\ pc' = "ret"
    /\ UNCHANGED <<entry, o, in_video, outname, inname, conv_name, reading, now,
                   safer_name, out_video, ran, calls, prev, changed>>

\* lines 73-77
Infer73 ==
    /\ pc = "l73"
    /\ result' = IF Exists(safer_name) THEN Raise("NameError") ELSE Return(safer_name)
    /\ pc' = "ret"
    /\ UNCHANGED <<entry, o, in_video, fs, outname, inname, conv_name, reading, now,
                   safer_name, out_video, ran, calls, prev, changed>>

-----------------------------------------------------------------------------
(* the tests: direct calls *)

TestCall ==
    /\ pc = "idle"
    /\ entry = "test"
    /\ calls < MaxCalls
    /\ Enter(o, in_video)
    /\ UNCHANGED <<entry, o, in_video, fs, out_video, ran, prev, changed>>

\* the call is over (returned, or raised into pytest.raises)
TestReturn ==
    /\ pc = "ret"
    /\ entry = "test"
    /\ prev' = [valid |-> TRUE, reading |-> reading, result |-> result]
    /\ changed' = FALSE
    /\ pc' = "idle"
    /\ UNCHANGED <<entry, o, in_video, fs, outname, inname, conv_name, reading, now,
                   safer_name, result, out_video, ran, calls>>

-----------------------------------------------------------------------------
(* main *)

\* a variant without the existence check of lines 87-88
Main87NoCheck ==
    /\ pc = "main87"
    /\ pc' = "main90"
    /\ UNCHANGED <<entry, o, in_video, fs, outname, inname, conv_name, reading, now,
                   safer_name, result, out_video, ran, calls, prev, changed>>

\* lines 86-88: the input must exist, or the run ends
Main87 ==
    /\ pc = "main87"
    /\ pc' = IF ~Exists(in_video) THEN "exit" ELSE "main90"
    /\ UNCHANGED <<entry, o, in_video, fs, outname, inname, conv_name, reading, now,
                   safer_name, result, out_video, ran, calls, prev, changed>>

\* lines 90-92: resolve the output name
Main90 ==
    /\ pc = "main90"
    /\ Enter(o, in_video)
    /\ UNCHANGED <<entry, o, in_video, fs, out_video, ran, prev, changed>>

\* line 92: the call returns into out_video, or its exception ends the run
Main92 ==
    /\ pc = "ret"
    /\ entry = "main"
    /\ IF result.kind = "return"
       THEN /\ out_video' = result.name
            /\ pc' = "main144"
       ELSE /\ out_video' = out_video
            /\ pc' = "exit"
    /\ UNCHANGED <<entry, o, in_video, fs, outname, inname, conv_name, reading, now,
                   safer_name, result, ran, calls, prev, changed>>

\* lines 144-148: first pass, writing to /dev/null; its exit status is the encoder's
Main144 ==
    /\ pc = "main144"
    /\ ran' = ran \cup {<<1, <<"/", "d", "e", "v", "/", "n", "u", "l", "l">> >>}
    /\ \E returncode \in {0, 1} :
          pc' = IF returncode # 0 THEN "exit" ELSE "main149"
    /\ UNCHANGED <<entry, o, in_video, fs, outname, inname, conv_name, reading, now,
                   safer_name, result, out_video, calls, prev, changed>>

\* line 149: second pass, writing out_video (the encoder may fail to)
Main149 ==
    /\ pc = "main149"
    /\ ran' = ran \cup {<<2, out_video>>}
    /\ fs' \in {fs, fs \cup {out_video}}
    /\ pc' = "exit"
    /\ UNCHANGED <<entry, o, in_video, outname, inname, conv_name, reading, now,
                   safer_name, result, out_video, calls, prev, changed>>

-----------------------------------------------------------------------------
(* the rest of the machine *)

\* another process creates or removes a path: in main after the existence
\* check of line 87 and before the call of line 92, in a test between two calls
OtherProcess ==
    /\ \/ pc = "main90"
       \/ pc = "idle" /\ calls >= 1
    /\ ~changed
    /\ \E p \in Universe(in_video, o) :
          fs' = IF p \in fs THEN fs \ {p} ELSE fs \cup {p}
    /\ changed' = TRUE
    /\ UNCHANGED <<entry, o, in_video, pc, outname, inname, conv_name, reading, now,
                   safer_name, result, out_video, ran, calls, prev>>

Next ==
    \/ Infer58
    \/ Infer64
    \/ Infer68
    \/ Infer71
    \/ Infer73
    \/ TestCall
    \/ TestReturn
    \/ Main87
    \/ Main90
    \/ Main92
    \/ Main144
    \/ Main149
    \/ OtherProcess

Spec == Init /\ [][Next]_vars

-----------------------------------------------------------------------------
(* What the properties speak of, stated without the code's operators *)

\* the call of infer_out_video_name is over and result holds its outcome
AtReturn == pc = "ret"

\* auto-generate mode: no explicit name was passed
Auto == ~o.some

\* index of the last c in s, 0 when there is none
LastIndexOf(s, c) ==
    IF \A i \in 1..Len(s) : s[i] # c THEN 0
    ELSE CHOOSE i \in 1..Len(s) : s[i] = c /\ \A j \in (i + 1)..Len(s) : s[j] # c

\* s without the substring from its last "." on; s itself when it has no "."
BaseOf(s) == IF LastIndexOf(s, ".") = 0 THEN s ELSE SubSeq(s, 1, LastIndexOf(s, ".") - 1)

\* s up to and including its last "/", and the final path segment after it
DirOf(s) == SubSeq(s, 1, LastIndexOf(s, "/"))
SegmentOf(s) == SubSeq(s, LastIndexOf(s, "/") + 1, Len(s))

\* number of "." in s
Dots(s) == Cardinality({i \in 1..Len(s) : s[i] = "."})

\* YYYY-MM-DD-HHMMSS of the two clock readings, written out
Stamp(t) ==
    IF t = T2001
    THEN <<"2", "0", "0", "1", "-", "0", "1", "-", "0", "1", "-", "0", "1", "0", "1", "0", "1">>
    ELSE <<"2", "0", "2", "3", "-", "1", "1", "-", "3", "0", "-", "2", "3", "0", "5", "5", "9">>

Primary == BaseOf(in_video) \o WEBM
Fallback(t) == BaseOf(in_video) \o TRIMSHARE \o Stamp(t) \o WEBM

-----------------------------------------------------------------------------
(* Properties *)

FallbackReturnedWhenPrimaryTaken ==
    (AtReturn /\ Auto /\ Primary \in fs)
        => /\ Len(reading) = 1
           /\ Fallback(reading[1]) \notin fs => result = Return(Fallback(reading[1]))

\* C2 witness: the clock read 2001-01-01 01:01:01 and the name carries 2001-01-01-010101
FallbackReturnedAt2001 ==
    /\ AtReturn /\ Auto /\ Primary \in fs
    /\ reading = <<T2001>>
    /\ Fallback(T2001) \notin fs
    /\ result = Return(Fallback(T2001))

\* C3: the call fails with NameError exactly when it is in auto-generate mode
\* and both the primary name and the fallback name for this call's clock
\* reading exist; it then returns no name.
ExhaustedExactlyWhenBothTaken ==
    AtReturn =>
        (result = Raise("NameError")
            <=> /\ Auto
                /\ Primary \in fs
                /\ Len(reading) = 1
                /\ Fallback(reading[1]) \in fs)
        /\ (result.kind = "NameError" => result = Raise("NameError"))

\* C3 witness: both names exist and the call raised NameError
ExhaustedReached ==
    /\ AtReturn /\ Auto
    /\ Primary \in fs
    /\ Len(reading) = 1
    /\ Fallback(reading[1]) \in fs
    /\ result = Raise("NameError")

\* C4: an explicit name equal to the input name makes the call fail with
\* FileExistsError, returning no name, whatever the filesystem holds.
CollisionRaised ==
    (AtReturn /\ o.some /\ o.val = in_video) => result = Raise("FileExistsError")

\* C4 witness: explicit name equal to the input, input present on disk, FileExistsError
CollisionReached ==
    /\ AtReturn /\ o.some /\ o.val = in_video
    /\ in_video \in fs
    /\ result = Raise("FileExistsError")

\* C5: an explicit name that differs from the input name is returned
\* unchanged, whatever the filesystem holds, with no stem derivation and no
\* clock reading.
ExplicitReturnedUnchanged ==
    (AtReturn /\ o.some /\ o.val # in_video)
        => /\ result = Return(o.val)
           /\ inname = in_video
           /\ conv_name = <<>>
           /\ reading = <<>>

\* C5 witness: the explicit name exists already and is returned all the same
ExplicitExistingReturned ==
    /\ AtReturn /\ o.some /\ o.val # in_video
    /\ o.val \in fs
    /\ result = Return(o.val)

\* C6: in auto-generate mode a returned name does not exist on the filesystem
\* at the time of the call, and when both candidates exist the call fails
\* instead of returning a name.
ReturnedNameIsFree ==
    (AtReturn /\ Auto)
        => /\ result.kind = "return" => result.name \notin fs
           /\ (Primary \in fs /\ Len(reading) = 1 /\ Fallback(reading[1]) \in fs)
                  => result.kind # "return"

\* C6 witness: the primary name was taken and the name returned is a free one
FreeFallbackReturned ==
    /\ AtReturn /\ Auto
    /\ Primary \in fs
    /\ result.kind = "return"
    /\ result.name \notin fs

\* C7: in auto-generate mode a returned name never equals the input name,
\* for every input name (on disk or not), filesystem and clock reading.
AutoNameDiffersFromInput ==
    (AtReturn /\ Auto /\ result.kind = "return") => result.name # in_video

\* C8: in auto-generate mode the returned name keeps the input path up to and
\* including its last "/" and replaces only the last extension of the final
\* path segment by .webm (or by -trimshare-<timestamp>.webm).
DirectoryPreserved ==
    (AtReturn /\ Auto /\ result.kind = "return")
        => LET stem == DirOf(in_video) \o BaseOf(SegmentOf(in_video))
           IN  result.name \in {stem \o WEBM}
                   \cup {stem \o TRIMSHARE \o Stamp(t) \o WEBM : t \in Clocks}

\* C9: a second call with the same arguments, no filesystem change by another
\* process since the first call and the same clock reading has the same
\* outcome as the first (the same name returned or the same failure).
SecondCallSameOutcome ==
    (AtReturn /\ prev.valid /\ ~changed /\ prev.reading = reading)
        => result = prev.result

\* C9 witness: two calls read the same clock value and ended alike
SecondCallSameFallback ==
    /\ AtReturn /\ prev.valid /\ ~changed
    /\ Len(reading) = 1
    /\ prev.reading = reading
    /\ result = prev.result
    /\ result.kind = "return"

\* C10: in a run of main in which no other process changes the filesystem,
\* once an encoder pass has been invoked the output path (out_video, handed
\* to the second pass) differs from the input path.
EncoderOutputDiffersFromInput ==
    (entry = "main" /\ ~changed /\ ran # {})
        => /\ out_video # in_video
           /\ \A r \in ran : r[1] = 2 => r[2] = out_video /\ r[2] # in_video

\* C10 witness: the input already ends in .webm, so the primary name is the
\* input itself, and the second pass was handed the timestamped name
EncoderGotFallbackForWebmInput ==
    /\ entry = "main" /\ ~changed /\ Auto
    /\ Primary = in_video
    /\ Len(reading) = 1
    /\ <<2, Fallback(reading[1])>> \in ran

====
